---- MODULE Spec2Model ----
(***************************************************************************)
(* Model of src/Cli/ReadCliArgs.cpp: getCommandLineArgsU8 (the argument    *)
(* encoding normalizer, both build variants) and beecli::readCliArgs (the  *)
(* clipp schema, the parse of the normalized arguments and the two return  *)
(* paths).                                                                 *)
(*                                                                         *)
(* Text is modelled as a sequence of code units: bytes for UTF-8 text,     *)
(* 16-bit units for the wide strings of the _WIN32 build.                  *)
(*                                                                         *)
(* clipp is an external library; the model follows its documented matching *)
(* for the schema exactly as lines 68-93 declare it:                       *)
(*   - clipp::value("input file", t) is a required positional parameter    *)
(*     that matches any non-empty argument once and stores it in t;        *)
(*   - clipp::option("--x").set(t) is an optional flag parameter.  It      *)
(*     matches the argument "--x" itself and nothing more (a value is      *)
(*     attached to an option only by `& value(...)`, which the source does *)
(*     not use); set(t) stores the matched argument converted to t's type  *)
(*     (bool: true);                                                       *)
(*   - an argument is tried against the flags first and then against the   *)
(*     positional; an argument that matches nothing, a flag given twice,   *)
(*     or a required parameter left unmatched makes parse() false.         *)
(***************************************************************************)
EXTENDS Integers, Sequences, FiniteSets, TLC

\* Largest raw argument vector explored (program name included).
MaxArgs == 4

\* Largest raw argument vector explored under the fairness specification.
MaxLiveArgs == 2

-----------------------------------------------------------------------------
(* Text values *)

\* "prog"
Prog ==
  <<112, 114, 111, 103>>
\* "model.fbx"
ModelFbx ==
  <<109, 111, 100, 101, 108, 46, 102, 98, 120>>
\* "30"
Thirty ==
  <<51, 48>>
\* "--foo": dash-prefixed, not declared by the schema
Foo ==
  <<45, 45, 102, 111, 111>>
\* ""
Empty ==
  <<>>
\* "--out"
OptOut ==
  <<45, 45, 111, 117, 116>>
\* "--fbm-dir"
OptFbmDir ==
  <<45, 45, 102, 98, 109, 45, 100, 105, 114>>
\* "--no-flip-v"
OptNoFlipV ==
  <<45, 45, 110, 111, 45, 102, 108, 105, 112, 45, 118>>
\* "--animation-bake-rate"
OptAnimationBakeRate ==
  <<45, 45, 97, 110, 105, 109, 97, 116, 105, 111, 110, 45, 98, 97, 107, 101,
    45, 114, 97, 116, 101>>
\* "--suspected-animation-duration-limit"
OptSuspectedAnimationDurationLimit ==
  <<45, 45, 115, 117, 115, 112, 101, 99, 116, 101, 100, 45, 97, 110, 105, 109,
    97, 116, 105, 111, 110, 45, 100, 117, 114, 97, 116, 105, 111, 110, 45,
    108, 105, 109, 105, 116>>

\* U+00E9 U+4E2D U+1F600 as UTF-8 bytes (non-_WIN32 raw argument)
NonAsciiU8 ==
  <<195, 169, 228, 184, 173, 240, 159, 152, 128>>
\* The same text as UTF-16 code units (_WIN32 raw argument; surrogate pair last)
NonAsciiW ==
  <<233, 20013, 55357, 56832>>

IsAscii(s) == \A i \in 1..Len(s) : s[i] < 128

AsciiArgs ==
  {ModelFbx, Thirty, Foo, Empty, OptOut, OptFbmDir, OptNoFlipV,
   OptAnimationBakeRate, OptSuspectedAnimationDurationLimit}

\* What the operating system may hand over, per build variant.
RawArgTokens(plat) ==
  AsciiArgs \cup (IF plat = "win32" THEN {NonAsciiW} ELSE {NonAsciiU8})

RawProgNames(plat) ==
  {Prog} \cup (IF plat = "win32" THEN {NonAsciiW} ELSE {NonAsciiU8})

RawVectors(plat, maxLen) ==
  {<<>>} \cup
  UNION {{<<p>> \o rest : p \in RawProgNames(plat),
                          rest \in [1..n -> RawArgTokens(plat)]} :
           n \in 0..(maxLen - 1)}

-----------------------------------------------------------------------------
(* std::optional *)

None == [has |-> FALSE, val |-> <<>>]
Some(v) == [has |-> TRUE, val |-> v]

-----------------------------------------------------------------------------
(* getCommandLineArgsU8, _WIN32 build: wideStringToUtf8 (lines 27-35) *)

\* wcslen: the number of code units before the terminator.
wcslen(w) == Len(w)

IsHighSurrogate(c) == c >= 55296 /\ c <= 56319
IsLowSurrogate(c) == c >= 56320 /\ c <= 57343

\* The UTF-8 bytes of one code point.
Utf8OfCodePoint(cp) ==
  IF cp < 128 THEN <<cp>>
  ELSE IF cp < 2048 THEN <<192 + (cp \div 64), 128 + (cp % 64)>>
  ELSE IF cp < 65536 THEN
    <<224 + (cp \div 4096), 128 + ((cp \div 64) % 64), 128 + (cp % 64)>>
  ELSE
    <<240 + (cp \div 262144), 128 + ((cp \div 4096) % 64),
      128 + ((cp \div 64) % 64), 128 + (cp % 64)>>

\* WideCharToMultiByte(CP_UTF8, 0, w, wLen, ...): the bytes it produces for
\* the first wLen units of w.  A surrogate pair becomes one 4-byte sequence;
\* an unpaired surrogate becomes U+FFFD.
RECURSIVE Utf8From(_, _, _)
Utf8From(w, i, wLen) ==
  IF i > wLen THEN <<>>
  ELSE IF IsHighSurrogate(w[i]) /\ i < wLen /\ IsLowSurrogate(w[i + 1]) THEN
    Utf8OfCodePoint(65536 + (w[i] - 55296) * 1024 + (w[i + 1] - 56320))
      \o Utf8From(w, i + 2, wLen)
  ELSE IF IsHighSurrogate(w[i]) \/ IsLowSurrogate(w[i]) THEN
    <<239, 191, 189>> \o Utf8From(w, i + 1, wLen)
  ELSE Utf8OfCodePoint(w[i]) \o Utf8From(w, i + 1, wLen)

\* The call's return value: 0 when it fails (cchWideChar = 0 is an invalid
\* parameter), else the number of bytes required / written.
WideCharToMultiByteLen(w, wLen) ==
  IF wLen = 0 THEN 0 ELSE Len(Utf8From(w, 1, wLen))

\* The second call, writing into `buf` of u8Len bytes; with a zero-sized
\* buffer nothing is written.
WideCharToMultiByteFill(w, wLen, buf, u8Len) ==
  LET bytes == Utf8From(w, 1, wLen) IN
  IF wLen = 0 \/ u8Len = 0 THEN buf
  ELSE [i \in 1..Len(buf) |-> IF i <= Len(bytes) THEN bytes[i] ELSE buf[i]]

wideStringToUtf8(wide_str_) ==
  LET wLen == wcslen(wide_str_)
      u8Len == WideCharToMultiByteLen(wide_str_, wLen)
      result == [i \in 1..u8Len |-> 0]
  IN WideCharToMultiByteFill(wide_str_, wLen, result, u8Len)

\* Lines 45-49: u8Args(nArgs), then u8Args[iArg] = wideStringToUtf8(argsW[iArg])
\* for every iArg < nArgs.
TranscodeArgs(nArgs, argsW) ==
  [iArg \in 1..nArgs |-> wideStringToUtf8(argsW[iArg])]

\* Faulty variant: the buffer is left as it was.
LocalFreeSkipped(buffer) == buffer

\* Line 51: LocalFree(argsW); the state of the OS buffer afterwards.
LocalFree(buffer) == "freed"

(* getCommandLineArgsU8, other builds (lines 57-61) *)

\* Faulty variant: the loop starts one element late.
CopyArgsBug(argc_, argv_) ==
  [iArg \in 1..argc_ |-> IF iArg = 1 THEN <<>> ELSE argv_[iArg]]

\* u8Args(argc_), then u8Args[iArg] = std::string(argv_[iArg]) for iArg < argc_.
CopyArgs(argc_, argv_) ==
  [iArg \in 1..argc_ |-> argv_[iArg]]

-----------------------------------------------------------------------------
(* beecli::readCliArgs: CliArgs and the clipp schema (lines 67-93) *)

\* CliArgs cliArgs; the record's declaration is not part of the sources at
\* hand: inputFile empty, the optional paths absent, noFlipV false, and the
\* two numeric options left at their (unset) defaults.
DefaultCliArgs ==
  [inputFile |-> <<>>,
   outFile |-> None,
   fbmDir |-> None,
   convertOptions |->
     [noFlipV |-> FALSE,
      animationBakeRate |-> None,
      suspectedAnimationDurationLimit |-> None]]

DeclaredFlags ==
  {OptOut, OptFbmDir, OptNoFlipV, OptAnimationBakeRate,
   OptSuspectedAnimationDurationLimit}

\* Faulty variant: the targets of --fbm-dir and --no-flip-v exchanged.
FlagTargetBug(flag) ==
  IF flag = OptOut THEN "outFile"
  ELSE IF flag = OptFbmDir THEN "noFlipV"
  ELSE IF flag = OptNoFlipV THEN "fbmDir"
  ELSE IF flag = OptAnimationBakeRate THEN "animationBakeRate"
  ELSE "suspectedAnimationDurationLimit"

\* The field each option's .set(...) is bound to.
FlagTarget(flag) ==
  IF flag = OptOut THEN "outFile"
  ELSE IF flag = OptFbmDir THEN "fbmDir"
  ELSE IF flag = OptNoFlipV THEN "noFlipV"
  ELSE IF flag = OptAnimationBakeRate THEN "animationBakeRate"
  ELSE "suspectedAnimationDurationLimit"

\* The schema as the usage text shows it: the positional and the options.
Schema ==
  [positional |-> "input file",
   options |-> {<<f, FlagTarget(f)>> : f \in DeclaredFlags}]

IsDigit(c) == c >= 48 /\ c <= 57

\* Conversion of an argument to a number as strtol/strtod read it: an
\* optional sign, then the leading decimal digits; 0 when there are none.
RECURSIVE DigitsFrom(_, _, _)
DigitsFrom(s, i, acc) ==
  IF i > Len(s) \/ ~IsDigit(s[i]) THEN acc
  ELSE DigitsFrom(s, i + 1, acc * 10 + (s[i] - 48))

ToNumber(s) ==
  IF Len(s) > 0 /\ s[1] = 45 THEN 0 - DigitsFrom(s, 2, 0)
  ELSE IF Len(s) > 0 /\ s[1] = 43 THEN DigitsFrom(s, 2, 0)
  ELSE DigitsFrom(s, 1, 0)

\* .set(target) run on a matched flag: the target receives the matched
\* argument (the flag's own text) converted to its type.
SetTarget(cli, flag) ==
  LET t == FlagTarget(flag) IN
  IF t = "outFile" THEN [cli EXCEPT !.outFile = Some(flag)]
  ELSE IF t = "fbmDir" THEN [cli EXCEPT !.fbmDir = Some(flag)]
  ELSE IF t = "noFlipV" THEN [cli EXCEPT !.convertOptions.noFlipV = TRUE]
  ELSE IF t = "animationBakeRate" THEN
    [cli EXCEPT !.convertOptions.animationBakeRate = Some(ToNumber(flag))]
  ELSE
    [cli EXCEPT !.convertOptions.suspectedAnimationDurationLimit =
                  Some(ToNumber(flag))]

(* clipp::parse(first, last, cli) (lines 104-105) *)

\* Faulty variant: the whole vector, begin() .. end().
ParseRangeBug(args) ==
  [k \in 1..Len(args) |-> [arg |-> args[k], idx |-> k]]

\* The range handed to parse: begin() + 1 .. end(), each argument with its
\* index in the normalized vector (1-based here).
ParseRange(args) ==
  [k \in 1..(Len(args) - 1) |-> [arg |-> args[k + 1], idx |-> k + 1]]

\* Matching state: the record being populated, the flags seen, the index the
\* positional was taken from (0: not yet matched), and whether any argument
\* stayed unmatched or repeated a flag.
StartMatch(cli) ==
  [cli |-> cli, matched |-> {}, inputIdx |-> 0, error |-> FALSE]

MatchArg(st, item) ==
  IF item.arg \in DeclaredFlags THEN
    [st EXCEPT !.cli = SetTarget(@, item.arg),
               !.matched = @ \cup {item.arg},
               !.error = @ \/ item.arg \in st.matched]
  ELSE IF st.inputIdx = 0 /\ item.arg # <<>> THEN
    [st EXCEPT !.cli.inputFile = item.arg, !.inputIdx = item.idx]
  ELSE [st EXCEPT !.error = TRUE]

RECURSIVE MatchAll(_, _, _)
MatchAll(st, items, k) ==
  IF k > Len(items) THEN st ELSE MatchAll(MatchArg(st, items[k]), items, k + 1)

\* parse(...) converted to bool: no error and the required positional matched.
ParseOk(st) == ~st.error /\ st.inputIdx # 0

(* Lines 96, 103, 107: the guards *)

\* Faulty variant: the check of the optional is missing.
NormalizationFailedBug(opt) == FALSE

\* !commandLineArgsU8
NormalizationFailed(opt) == ~opt.has

\* Faulty variant: the emptiness guard is missing.
IsEmptyBug(args) == FALSE

\* commandLineArgsU8->empty()
IsEmpty(args) == Len(args) = 0

\* commandLineArgsU8->front(); on an empty vector the call is undefined and
\* may yield anything.
Front(args) ==
  IF Len(args) > 0 THEN {args[1]} ELSE RawProgNames("other") \cup {<<>>}

\* Faulty variant: the program name is always "".
UsageProgNamesBug(args) == {<<>>}

\* The name make_man_page is given: "" for an empty vector, else front().
UsageProgNames(args) == IF IsEmpty(args) THEN {<<>>} ELSE Front(args)

make_man_page(cli, prog) == [schema |-> cli, prog |-> prog]

\* Faulty variant: the failure path starts over instead of returning.
UsageRetries == "call_normalizer"

\* Line 108: return {} ends the invocation.
UsageReturnsTo == "done"

-----------------------------------------------------------------------------
(* One invocation of readCliArgs *)

VARIABLES
  platform,           \* the build variant: "win32" (#ifdef _WIN32) or "other"
  raw,                \* the raw arguments the operating system supplies
  retrievalOk,        \* whether CommandLineToArgvW will succeed (win32)
  pc,                 \* the position in readCliArgs / getCommandLineArgsU8
  argsW,              \* the OS-allocated wide array: "none", "NULL", "held", "freed"
  nArgs,              \* the count CommandLineToArgvW stored
  u8Args,             \* the normalizer's local vector
  commandLineArgsU8,  \* the normalizer's returned optional
  cliArgs,            \* the record the schema's targets refer to
  inputIdx,           \* index of the argument the positional was taken from (0: none)
  stdout,             \* what was written to std::cout, in order
  stderr,             \* what was written to std::cerr, in order
  state,              \* "Unparsed", "Parsed" or "Failed"
  result,             \* the returned std::optional<CliArgs>
  normCalls,          \* calls of getCommandLineArgsU8 so far
  parseCalls,         \* calls of clipp::parse so far
  accesses            \* element accesses made on the vector: <<operation, size()>>

vars ==
  <<platform, raw, retrievalOk, pc, argsW, nArgs, u8Args, commandLineArgsU8,
    cliArgs, inputIdx, stdout, stderr, state, result, normCalls, parseCalls,
    accesses>>

\* The state on entry to readCliArgs, for raw vectors of at most maxLen
\* elements.
InitWith(maxLen) ==
  /\ platform \in {"win32", "other"}
  /\ raw \in RawVectors(platform, maxLen)
  /\ retrievalOk \in (IF platform = "win32" THEN BOOLEAN ELSE {TRUE})
  /\ pc = "entry"
  /\ argsW = "none"
  /\ nArgs = 0
  /\ u8Args = <<>>
  /\ commandLineArgsU8 = None
  /\ cliArgs = DefaultCliArgs
  /\ inputIdx = 0
  /\ stdout = <<>>
  /\ stderr = <<>>
  /\ state = "Unparsed"
  /\ result = None
  /\ normCalls = 0
  /\ parseCalls = 0
  /\ accesses = {}

Init == InitWith(MaxArgs)

\* Lines 67-93: CliArgs cliArgs; auto cli = (...).
DeclareSchema ==
  /\ pc = "entry"
  /\ cliArgs' = DefaultCliArgs
  /\ pc' = "call_normalizer"
  /\ UNCHANGED <<platform, raw, retrievalOk, argsW, nArgs, u8Args,
                 commandLineArgsU8, inputIdx, stdout, stderr, state, result,
                 normCalls, parseCalls, accesses>>

\* Lines 95, 36-39: argsW = CommandLineToArgvW(GetCommandLineW(), &nArgs).
CallCommandLineToArgvW ==
  /\ pc = "call_normalizer"
  /\ platform = "win32"
  /\ normCalls' = normCalls + 1
  /\ argsW' = IF retrievalOk THEN "held" ELSE "NULL"
  /\ nArgs' = IF retrievalOk THEN Len(raw) ELSE 0
  /\ pc' = "win_check"
  /\ UNCHANGED <<platform, raw, retrievalOk, u8Args, commandLineArgsU8,
                 cliArgs, inputIdx, stdout, stderr, state, result, parseCalls,
                 accesses>>

\* Lines 40-43: if (argsW == NULL) { std::cerr << ...; return {}; }
RetrievalFailed ==
  /\ pc = "win_check"
  /\ argsW = "NULL"
  /\ stderr' = Append(stderr, "CommandLineToArgvW failed")
  /\ commandLineArgsU8' = None
  /\ pc' = "after_normalizer"
  /\ UNCHANGED <<platform, raw, retrievalOk, argsW, nArgs, u8Args, cliArgs,
                 inputIdx, stdout, state, result, normCalls, parseCalls,
                 accesses>>

\* Lines 45-49: the transcoding loop.
Transcode ==
  /\ pc = "win_check"
  /\ argsW # "NULL"
  /\ u8Args' = TranscodeArgs(nArgs, raw)
  /\ pc' = "win_free"
  /\ UNCHANGED <<platform, raw, retrievalOk, argsW, nArgs, commandLineArgsU8,
                 cliArgs, inputIdx, stdout, stderr, state, result, normCalls,
                 parseCalls, accesses>>

\* Line 51: LocalFree(argsW).
ReleaseArgsW ==
  /\ pc = "win_free"
  /\ argsW' = LocalFree(argsW)
  /\ pc' = "win_return"
  /\ UNCHANGED <<platform, raw, retrievalOk, nArgs, u8Args, commandLineArgsU8,
                 cliArgs, inputIdx, stdout, stderr, state, result, normCalls,
                 parseCalls, accesses>>

\* Line 53: return u8Args.
ReturnU8Args ==
  /\ pc = "win_return"
  /\ commandLineArgsU8' = Some(u8Args)
  /\ pc' = "after_normalizer"
  /\ UNCHANGED <<platform, raw, retrievalOk, argsW, nArgs, u8Args, cliArgs,
                 inputIdx, stdout, stderr, state, result, normCalls,
                 parseCalls, accesses>>

\* Lines 95, 57-61: the copy loop and return u8Args.
NormalizeOther ==
  /\ pc = "call_normalizer"
  /\ platform = "other"
  /\ normCalls' = normCalls + 1
  /\ u8Args' = CopyArgs(Len(raw), raw)
  /\ commandLineArgsU8' = Some(CopyArgs(Len(raw), raw))
  /\ pc' = "after_normalizer"
  /\ UNCHANGED <<platform, raw, retrievalOk, argsW, nArgs, cliArgs, inputIdx,
                 stdout, stderr, state, result, parseCalls, accesses>>

\* Lines 96-98: if (!commandLineArgsU8) return {}.
ReturnNormalizationFailed ==
  /\ pc = "after_normalizer"
  /\ NormalizationFailed(commandLineArgsU8)
  /\ result' = None
  /\ state' = "Failed"
  /\ pc' = "done"
  /\ UNCHANGED <<platform, raw, retrievalOk, argsW, nArgs, u8Args,
                 commandLineArgsU8, cliArgs, inputIdx, stdout, stderr,
                 normCalls, parseCalls, accesses>>

\* Lines 103-105: empty() || !clipp::parse(begin() + 1, end(), cli).  The
\* right operand is evaluated only when the vector is not empty; parse runs
\* the targets' assignments on cliArgs as it matches.
MatchSchema ==
  /\ pc = "after_normalizer"
  /\ ~NormalizationFailed(commandLineArgsU8)
  /\ LET args == commandLineArgsU8.val IN
     IF IsEmpty(args)
     THEN /\ pc' = "usage"
          /\ UNCHANGED <<cliArgs, inputIdx, parseCalls, accesses>>
     ELSE LET st == MatchAll(StartMatch(cliArgs), ParseRange(args), 1) IN
          /\ accesses' = accesses \cup {<<"begin+1", Len(args)>>}
          /\ parseCalls' = parseCalls + 1
          /\ cliArgs' = st.cli
          /\ inputIdx' = st.inputIdx
          /\ pc' = IF ParseOk(st) THEN "return_ok" ELSE "usage"
  /\ UNCHANGED <<platform, raw, retrievalOk, argsW, nArgs, u8Args,
                 commandLineArgsU8, stdout, stderr, state, result, normCalls>>

\* Lines 106-108: std::cout << make_man_page(cli, empty() ? "" : front());
\* return {}.
PrintUsage ==
  /\ pc = "usage"
  /\ LET args == commandLineArgsU8.val IN
     /\ \E prog \in UsageProgNames(args) :
          stdout' = Append(stdout, make_man_page(Schema, prog))
     /\ accesses' = IF IsEmpty(args) THEN accesses
                    ELSE accesses \cup {<<"front", Len(args)>>}
  /\ result' = None
  /\ state' = "Failed"
  /\ pc' = UsageReturnsTo
  /\ UNCHANGED <<platform, raw, retrievalOk, argsW, nArgs, u8Args,
                 commandLineArgsU8, cliArgs, inputIdx, stderr, normCalls,
                 parseCalls>>

\* Line 111: return cliArgs.
ReturnCliArgs ==
  /\ pc = "return_ok"
  /\ result' = Some(cliArgs)
  /\ state' = "Parsed"
  /\ pc' = "done"
  /\ UNCHANGED <<platform, raw, retrievalOk, argsW, nArgs, u8Args,
                 commandLineArgsU8, cliArgs, inputIdx, stdout, stderr,
                 normCalls, parseCalls, accesses>>

Next ==
  \/ DeclareSchema
  \/ CallCommandLineToArgvW
  \/ RetrievalFailed
  \/ Transcode
  \/ ReleaseArgsW
  \/ ReturnU8Args
  \/ NormalizeOther
  \/ ReturnNormalizationFailed
  \/ MatchSchema
  \/ PrintUsage
  \/ ReturnCliArgs

Spec == Init /\ [][Next]_vars

\* The call is synchronous and runs to completion: a step that can be taken
\* is taken.
FairSpec == InitWith(MaxLiveArgs) /\ [][Next]_vars /\ WF_vars(Next)

-----------------------------------------------------------------------------
(* The claims *)

Done == pc = "done"

\* The normalized vector, once the normalizer has returned one.
Normalized == commandLineArgsU8.has
Args == commandLineArgsU8.val

\* What parse() makes of a normalized vector, from a fresh CliArgs.
MatchOf(args) == MatchAll(StartMatch(DefaultCliArgs), ParseRange(args), 1)

IsDashPrefixed(t) == Len(t) > 0 /\ t[1] = 45
IsUnknownToken(t) == IsDashPrefixed(t) /\ t \notin DeclaredFlags
IsNumeric(t) == Len(t) > 0 /\ \A i \in 1..Len(t) : IsDigit(t[i])
TextOptions == {OptOut, OptFbmDir}
NumericOptions == {OptAnimationBakeRate, OptSuspectedAnimationDurationLimit}

FieldOf(cli, target) ==
  IF target = "outFile" THEN cli.outFile
  ELSE IF target = "fbmDir" THEN cli.fbmDir
  ELSE IF target = "animationBakeRate" THEN cli.convertOptions.animationBakeRate
  ELSE cli.convertOptions.suspectedAnimationDurationLimit

\* C1: only elements 1..n of the normalized vector are matched against the
\* schema: on every successful parse inputFile is the element at an index
\* >= 1 (>= 2 counting from 1) and never element 0, and a vector holding only
\* the program name does not parse.
C1_ProgramNameNeverPositional ==
  /\ state = "Parsed" =>
       /\ inputIdx >= 2
       /\ inputIdx <= Len(Args)
       /\ result.val.inputFile = Args[inputIdx]
  /\ (Done /\ Normalized /\ Len(Args) = 1) => state = "Failed"

\* A successful parse whose positional came after a flag.
C1_Witness ==
  /\ state = "Parsed"
  /\ Args[1] = Prog
  /\ inputIdx = 3
  /\ result.val.inputFile = ModelFbx

\* C2: each of the four value options consumes the token that follows it:
\* [prog, input, <option>, v] parses and the option's target equals v
\* (30 for --animation-bake-rate 30, p for --out p).
C2_ValueOptionConsumesNextToken ==
  (/\ Done
   /\ Normalized
   /\ Len(Args) = 4
   /\ Args[2] = ModelFbx
   /\ \/ Args[3] \in TextOptions /\ Args[4] \in {ModelFbx, Thirty}
      \/ Args[3] \in NumericOptions /\ Args[4] = Thirty)
  => /\ state = "Parsed"
     /\ FieldOf(result.val, FlagTarget(Args[3])) =
          (IF Args[3] \in NumericOptions THEN Some(ToNumber(Args[4]))
           ELSE Some(Args[4]))

\* C3: a missing positional, an unknown token or a malformed option value
\* each end in parse failure; [prog] alone fails and an unknown dash-prefixed
\* token is never accepted.
C3_SchemaMismatchFails ==
  (/\ Done
   /\ Normalized
   /\ Len(Args) >= 1
   /\ \/ \A i \in 2..Len(Args) : Args[i] \in DeclaredFlags
      \/ \E i \in 2..Len(Args) : IsUnknownToken(Args[i])
      \/ \E i \in 2..(Len(Args) - 1) :
           Args[i] \in NumericOptions /\ ~IsNumeric(Args[i + 1]))
  => state = "Failed" /\ ~result.has

\* C4: when matching fails or the normalized vector is empty, the usage text
\* (schema, element 0 or "" as program name) is written to standard output
\* exactly once and the result is absent, whatever matching stored in
\* cliArgs; on a successful parse nothing is written.
C4_UsageExactlyOnFailure ==
  /\ Len(stdout) <= 1
  /\ pc = "return_ok" => stdout = <<>>
  /\ (Done /\ Normalized /\ (Len(Args) = 0 \/ ~ParseOk(MatchOf(Args)))) =>
       /\ state = "Failed"
       /\ result = None
       /\ stdout = <<[schema |-> Schema,
                      prog |-> IF Len(Args) = 0 THEN <<>> ELSE Args[1]]>>
  /\ (Done /\ Normalized /\ Len(Args) > 0 /\ ParseOk(MatchOf(Args))) =>
       stdout = <<>> /\ state = "Parsed"

\* A failed parse that had already stored something in cliArgs.
C4_Witness ==
  /\ Done
  /\ state = "Failed"
  /\ Len(Args) >= 2
  /\ cliArgs # DefaultCliArgs
  /\ Len(stdout) = 1
  /\ result = None

\* C5: when CommandLineToArgvW returned null the normalizer reports failure
\* and readCliArgs returns absent without matching the schema and without
\* writing usage text.
C5_NormalizerFailureSkipsParsing ==
  argsW = "NULL" =>
    /\ pc \in {"win_check", "after_normalizer", "done"}
    /\ ~Normalized
    /\ parseCalls = 0
    /\ stdout = <<>>
    /\ accesses = {}
    /\ Done => state = "Failed" /\ result = None

C5_Witness == Done /\ argsW = "NULL" /\ state = "Failed" /\ stderr # <<>>

\* C6: with an empty vector the result is absent and neither begin() + 1 nor
\* front() is evaluated: every element access happens on a non-empty vector.
C6_NoAccessOnEmptyVector ==
  /\ \A a \in accesses : a[2] > 0
  /\ (Normalized /\ Len(Args) = 0) =>
       /\ accesses = {}
       /\ parseCalls = 0
       /\ pc \in {"after_normalizer", "usage", "done"}
       /\ Done => state = "Failed" /\ result = None

C6_Witness ==
  Done /\ Normalized /\ Len(raw) = 0 /\ Len(Args) = 0 /\ Len(stdout) = 1

\* C7: the normalizer keeps length and order: N raw arguments give N text
\* values, element 0 the program name; without _WIN32 every element is the
\* raw element unchanged, with _WIN32 every element is the raw element's
\* text in UTF-8.
C7_NormalizerPreservesLengthAndOrder ==
  Normalized =>
    /\ Len(Args) = Len(raw)
    /\ platform = "other" => Args = raw
    /\ platform = "win32" =>
         \A i \in 1..Len(raw) :
           /\ IsAscii(raw[i]) => Args[i] = raw[i]
           /\ raw[i] = NonAsciiW => Args[i] = NonAsciiU8
    /\ Len(raw) >= 1 => Args[1] \in {Prog, NonAsciiU8}

C7_Witness ==
  /\ Normalized
  /\ platform = "win32"
  /\ Len(raw) >= 3
  /\ raw[1] = NonAsciiW
  /\ Args[3] = ModelFbx

\* C8: [prog, x] optionally followed by --no-flip-v, x non-empty and not an
\* option name, parses with inputFile = x, outFile and fbmDir absent, the
\* numeric options at their defaults, and noFlipV true exactly when the flag
\* was given.
C8_AbsentOptionsKeepDefaults ==
  (/\ Done
   /\ Normalized
   /\ Len(Args) \in {2, 3}
   /\ Args[2] # <<>>
   /\ Args[2] \notin DeclaredFlags
   /\ Len(Args) = 3 => Args[3] = OptNoFlipV)
  => /\ state = "Parsed"
     /\ result =
          Some([inputFile |-> Args[2],
                outFile |-> None,
                fbmDir |-> None,
                convertOptions |->
                  [noFlipV |-> (Len(Args) = 3),
                   animationBakeRate |-> None,
                   suspectedAnimationDurationLimit |-> None]])

C8_Witness ==
  /\ Done
  /\ Len(Args) = 3
  /\ Args[3] = OptNoFlipV
  /\ state = "Parsed"
  /\ result.val.convertOptions.noFlipV
  /\ result.val.inputFile = Args[2]

PcRank ==
  [entry |-> 0, call_normalizer |-> 1, win_check |-> 2, win_free |-> 3,
   win_return |-> 4, after_normalizer |-> 5, usage |-> 6, return_ok |-> 6,
   done |-> 7]

LifecycleInv ==
  /\ state \in {"Unparsed", "Parsed", "Failed"}
  /\ pc \in DOMAIN PcRank
  /\ pc = "entry" => state = "Unparsed"
  /\ Done <=> state \in {"Parsed", "Failed"}
  /\ state = "Parsed" <=> result.has
  /\ normCalls <= 1
  /\ parseCalls <= 1

C10_RunsOnceToATerminalState ==
  /\ []LifecycleInv
  /\ [][~Done /\ PcRank[pc'] > PcRank[pc]]_vars
  /\ <>Done

C10_Witness ==
  Done /\ state = "Parsed" /\ normCalls = 1 /\ parseCalls = 1

====
